---- MODULE Spec2Model ----
(***************************************************************************)
(* Model of the api-wrapper ResponseWrapper (src/src/index.ts,             *)
(* src/src/types.ts): the envelope builders success/error, the             *)
(* configuration holder configure/getConfig, and the Express and Fastify   *)
(* adapters.                                                               *)
(*                                                                         *)
(* JavaScript values are records [type, val] with val the value's text, so *)
(* that values of different JavaScript types can be compared.  Objects the *)
(* program builds (envelopes, configurations) are TLA+ records over such   *)
(* values; DOMAIN gives the own properties of the object.  Objects the     *)
(* program only passes through (data, details) are opaque "object" values. *)
(***************************************************************************)
EXTENDS Integers, FiniteSets, Sequences, TLC

VARIABLES
    heap,        \* object store: reference -> configuration object, or Nil
    configRef,   \* this.config of the wrapper: a reference into heap
    held,        \* references returned by getConfig() that the caller still holds
    lastSet,     \* history: per key, the value most recently given (constructor or configure)
    ctorArg,     \* history: the argument the wrapper was constructed with
    configured,  \* history: whether configure has been called
    call,        \* the most recent operation and its arguments
    ret,         \* what that operation returned
    mw,          \* Express: whether middleware() has produced a handler, and the config then
    res,         \* Express: the response object of the request being handled
    fastify,     \* Fastify: the decorations of the instance and of the Reply prototype
    reply        \* Fastify: the reply object of the request being handled

vars == <<heap, configRef, held, lastSet, ctorArg, configured, call, ret,
          mw, res, fastify, reply>>

(***************************************************************************)
(* JavaScript values                                                       *)
(***************************************************************************)
Undefined == [type |-> "undefined", val |-> "undefined"]
Null      == [type |-> "object",    val |-> "null"]
True      == [type |-> "boolean",   val |-> "true"]
False     == [type |-> "boolean",   val |-> "false"]
Str(s)    == [type |-> "string",    val |-> s]
Num(s)    == [type |-> "number",    val |-> s]
Obj(s)    == [type |-> "object",    val |-> s]

\* ToBoolean, as used by || and && and if (...)
Truthy(v) ==
    CASE v.type = "undefined" -> FALSE
      [] v.type = "boolean"   -> v.val = "true"
      [] v.type = "number"    -> v.val \notin {"0", "-0", "NaN"}
      [] v.type = "string"    -> v.val # ""
      [] v.type = "object"    -> v.val # "null"

\* a || b
JsOr(a, b) == IF Truthy(a) THEN a ELSE b

\* a && b
JsAnd(a, b) == IF Truthy(a) THEN b ELSE a

\* a parameter declared with a default:  (p = dflt)
DefaultParam(v, dflt) == IF v = Undefined THEN dflt ELSE v

\* { ...a, ...b }: a fresh object with a's own properties overridden by b's own
\* properties; a property of b whose value is undefined is still an own property
Spread(a, b) ==
    [k \in DOMAIN a \cup DOMAIN b |-> IF k \in DOMAIN b THEN b[k] ELSE a[k]]

(***************************************************************************)
(* Configuration                                                           *)
(***************************************************************************)
Keys == {"defaultSuccessMessage", "defaultErrorMessage", "includeErrorDetails"}

EmptyObject == [k \in {} |-> Undefined]

DefaultSuccessMessage == Str("Operation completed successfully")
DefaultErrorMessage   == Str("An error occurred")

Defaults ==
    [defaultSuccessMessage |-> DefaultSuccessMessage,
     defaultErrorMessage   |-> DefaultErrorMessage,
     includeErrorDetails   |-> False]

\* constructor(config = {}): this.config = { defaults, ...config }
NewConfig(config) == Spread(Defaults, DefaultParam(config, EmptyObject))

\* the values a ResponseConfig key can be given: string | undefined, boolean | undefined
KeyValues(k) ==
    CASE k = "defaultSuccessMessage" -> {Str("OK"), Str(""), Undefined}
      [] k = "defaultErrorMessage"   -> {Str("Y"), Str(""), Undefined}
      [] k = "includeErrorDetails"   -> {True, False, Undefined}

AllKeyValues == UNION {KeyValues(k) : k \in Keys}

\* every Partial<ResponseConfig> over those values (a key may be absent, or
\* present with the value undefined)
Partials ==
    UNION {{p \in [D -> AllKeyValues] : \A k \in D : p[k] \in KeyValues(k)} :
              D \in SUBSET Keys}

\* the partial configurations used where the configuration is not the subject
SmallPartials ==
    {[defaultErrorMessage |-> Str("Y")],
     [includeErrorDetails |-> True],
     [defaultSuccessMessage |-> Str("OK"), includeErrorDetails |-> False]}

\* the configure calls and the assignments to a returned object used where
\* getConfig() is the subject
CopyPartials ==
    {[defaultErrorMessage |-> Str("Y")],
     [includeErrorDetails |-> True]}

Assignments ==
    {<<"defaultErrorMessage", Str("")>>,
     <<"includeErrorDetails", Undefined>>}

\* constructor arguments: none (the default exported wrapper) or a ResponseConfig
CtorArgs ==
    {Undefined,
     [defaultSuccessMessage |-> Str("OK"), includeErrorDetails |-> False],
     [includeErrorDetails |-> True],
     [defaultErrorMessage |-> Undefined]}

(***************************************************************************)
(* Object store.  this.config and the objects getConfig() hands out live   *)
(* in the heap, so that sharing an object and copying it are different.    *)
(* Objects nothing refers to any more are collected.                       *)
(***************************************************************************)
MaxHeld == 1

Refs == 1 .. (MaxHeld + 2)

Nil == [type |-> "nil"]

Fresh(cref, hd) == CHOOSE r \in Refs \ ({cref} \cup hd) :
                      \A q \in Refs \ ({cref} \cup hd) : r <= q

Collect(h, cref, hd) ==
    [r \in Refs |-> IF r = cref \/ r \in hd THEN h[r] ELSE Nil]

\* this.config
Config == heap[configRef]

(***************************************************************************)
(* Envelope builder                                                        *)
(***************************************************************************)
\* success(data, message?) with this.config = cfg
successOmitsUndefinedData(cfg, data, message) ==
    IF data = Undefined
    THEN [success |-> True, message |-> JsOr(message, cfg.defaultSuccessMessage)]
    ELSE [success |-> True, message |-> JsOr(message, cfg.defaultSuccessMessage),
          data |-> data]

success(cfg, data, message) ==
    [success |-> True,
     message |-> JsOr(message, cfg.defaultSuccessMessage),
     data    |-> data]

\* error(message?, code = 500, details?) with this.config = cfg
errorWithSuccessDefault(cfg, message, code, details) ==
    LET c == DefaultParam(code, Num("500"))
        errorResponse ==
            [success |-> False,
             message |-> JsOr(message, cfg.defaultSuccessMessage),
             error   |-> [code |-> c]]
    IN  IF Truthy(JsAnd(cfg.includeErrorDetails, details))
        THEN [errorResponse EXCEPT !.error = [code |-> c, details |-> details]]
        ELSE errorResponse

error(cfg, message, code, details) ==
    LET c == DefaultParam(code, Num("500"))
        errorResponse ==
            [success |-> False,
             message |-> JsOr(message, cfg.defaultErrorMessage),
             error   |-> [code |-> c]]
    IN  IF Truthy(JsAnd(cfg.includeErrorDetails, details))
        THEN [errorResponse EXCEPT !.error = [code |-> c, details |-> details]]
        ELSE errorResponse

\* configure(newConfig): the object this.config is replaced by
configureOldWins(cfg, newConfig) == Spread(newConfig, cfg)

configure(cfg, newConfig) == Spread(cfg, newConfig)

\* getConfig(): a fresh object { ...this.config }; the store after the call and
\* the reference returned
getConfigShared(h, cref, hd) == [heap |-> h, ref |-> cref]

getConfig(h, cref, hd) ==
    LET r == Fresh(cref, hd)
    IN  [heap |-> [h EXCEPT ![r] = Spread(EmptyObject, h[cref])], ref |-> r]

(***************************************************************************)
(* Express adapter: the methods the handler returned by middleware() puts  *)
(* on res.  res.status(code) records the status; res.json(body) records    *)
(* the object handed to Express for sending.                               *)
(***************************************************************************)
resStatus(r, code) == [r EXCEPT !.statusCode = code]

resJson(r, body) == [r EXCEPT !.body = body, !.sent = TRUE]

\* res.apiSuccess = (data, message?) => { res.json(this.success(data, message)) }
apiSuccess(r, cfg, data, message) == resJson(r, success(cfg, data, message))

\* res.apiError = (message?, code = 500, details?) =>
\*     { res.status(code).json(this.error(message, code, details)) }
apiErrorKeepsStatus(r, cfg, message, code, details) ==
    resJson(r, error(cfg, message, DefaultParam(code, Num("500")), details))

apiError(r, cfg, message, code, details) ==
    LET c == DefaultParam(code, Num("500"))
    IN  resJson(resStatus(r, c), error(cfg, message, c, details))

(***************************************************************************)
(* Fastify adapter.  decorateReply(name, fn) puts fn on the Reply          *)
(* prototype, where every reply finds it; decorate(name, value) puts value *)
(* on the fastify instance.  Inside a reply decorator `this` is the reply. *)
(***************************************************************************)
\* this.<name> on a reply: own and prototype properties of the reply
replyLookup(f, name) == IF name \in f.replyProto THEN name ELSE "undefined"

replyCode(rp, code) == [rp EXCEPT !.statusCode = code]

replySend(rp, payload) == [rp EXCEPT !.payload = payload, !.sent = TRUE]

\* reading a property of undefined throws a TypeError
replyThrow(rp) == [rp EXCEPT !.threw = TRUE]

\* function (data, message?) { const response = this.responseWrapper.success(data, message);
\*                             this.send(response) }
replyApiSuccess(rp, f, cfg, data, message) ==
    IF replyLookup(f, "responseWrapper") = "undefined"
    THEN replyThrow(rp)
    ELSE replySend(rp, success(cfg, data, message))

\* function (message?, code = 500, details?) {
\*     const response = this.responseWrapper.error(message, code, details);
\*     this.code(code).send(response) }
replyApiError(rp, f, cfg, message, code, details) ==
    LET c == DefaultParam(code, Num("500"))
    IN  IF replyLookup(f, "responseWrapper") = "undefined"
        THEN replyThrow(rp)
        ELSE replySend(replyCode(rp, c), error(cfg, message, c, details))

\* decorateFastify(fastify)
decorateFastify(f) ==
    [instance   |-> f.instance \cup {"responseWrapper"},
     replyProto |-> f.replyProto \cup {"apiSuccess", "apiError"}]

(***************************************************************************)
(* Inputs                                                                  *)
(***************************************************************************)
\* an omitted argument is undefined
Messages == {Undefined, Str(""), Str("Not found")}
Codes    == {Undefined, Num("404"), Num("422")}
Datas    == {Undefined, Null, Num("0"), Obj("{id:1}")}
Details  == {Undefined, Null, Num("0"), False, Str(""), Obj("{resource:'user'}")}

(***************************************************************************)
(* Initial state: a wrapper has been constructed; no request is in flight  *)
(***************************************************************************)
NoRes   == [attached |-> FALSE, statusCode |-> Num("200"), sent |-> FALSE,
            body |-> Undefined]
NoReply == [active |-> FALSE, statusCode |-> Num("200"), sent |-> FALSE,
            payload |-> Undefined, threw |-> FALSE]

InitWith(C) ==
    \E c \in C :
        /\ heap = [r \in Refs |-> IF r = 1 THEN NewConfig(c) ELSE Nil]
        /\ configRef = 1
        /\ held = {}
        /\ lastSet = [k \in Keys |-> IF c # Undefined /\ k \in DOMAIN c
                                     THEN c[k] ELSE Defaults[k]]
        /\ ctorArg = c
        /\ configured = FALSE
        /\ call = [op |-> "new"]
        /\ ret = Undefined
        /\ mw = [created |-> FALSE, config |-> Nil]
        /\ res = NoRes
        /\ fastify = [instance |-> {}, replyProto |-> {}]
        /\ reply = NoReply

Init == InitWith(CtorArgs)

\* the default exported wrapper: new ResponseWrapper()
InitDefault == InitWith({Undefined})

storeVars   == <<heap, configRef, held>>
historyVars == <<lastSet, ctorArg, configured>>
expressVars == <<mw, res>>
fastifyVars == <<fastify, reply>>

(***************************************************************************)
(* Operations on the wrapper                                               *)
(***************************************************************************)
ConfigureWith(P) ==
    \E p \in P :
        LET r == Fresh(configRef, held) IN
        /\ heap' = Collect([heap EXCEPT ![r] = configure(Config, p)], r, held)
        /\ configRef' = r
        /\ lastSet' = [k \in Keys |-> IF k \in DOMAIN p THEN p[k] ELSE lastSet[k]]
        /\ configured' = TRUE
        /\ call' = [op |-> "configure", newConfig |-> p]
        /\ ret' = Undefined
        /\ UNCHANGED <<held, ctorArg, expressVars, fastifyVars>>

Configure == ConfigureWith(Partials)

ConfigureSmall == ConfigureWith(SmallPartials)

SuccessWith(D, M) ==
    \E d \in D, m \in M :
        /\ call' = [op |-> "success", data |-> d, message |-> m]
        /\ ret' = success(Config, d, m)
        /\ UNCHANGED <<storeVars, historyVars, expressVars, fastifyVars>>

Success == SuccessWith(Datas, Messages)

ErrorWith(M, C, D) ==
    \E m \in M, c \in C, d \in D :
        /\ call' = [op |-> "error", message |-> m, code |-> c, details |-> d]
        /\ ret' = error(Config, m, c, d)
        /\ UNCHANGED <<storeVars, historyVars, expressVars, fastifyVars>>

Error == ErrorWith(Messages, Codes, Details)

Next == Configure \/ Success \/ Error

Spec == Init /\ [][Next]_vars

(***************************************************************************)
(* getConfig() and what its caller does with the object it gets            *)
(***************************************************************************)
GetConfig ==
    /\ Cardinality(held) < MaxHeld
    /\ LET g == getConfig(heap, configRef, held) IN
        /\ heap' = g.heap
        /\ held' = held \cup {g.ref}
        /\ ret' = [type |-> "ref", ref |-> g.ref]
    /\ call' = [op |-> "getConfig"]
    /\ UNCHANGED <<configRef, historyVars, expressVars, fastifyVars>>

\* the caller assigns to a property of an object getConfig() returned
MutateReturned ==
    \E r \in held, k \in Keys, v \in AllKeyValues :
        /\ <<k, v>> \in Assignments
        /\ heap[r][k] # v
        /\ heap' = [heap EXCEPT ![r][k] = v]
        /\ call' = [op |-> "mutate", ref |-> r, key |-> k, value |-> v]
        /\ ret' = Undefined
        /\ UNCHANGED <<configRef, held, historyVars, expressVars, fastifyVars>>

\* the caller lets go of an object getConfig() returned
Release ==
    \E r \in held :
        /\ held' = held \ {r}
        /\ heap' = Collect(heap, configRef, held \ {r})
        /\ call' = [op |-> "release", ref |-> r]
        /\ ret' = Undefined
        /\ UNCHANGED <<configRef, historyVars, expressVars, fastifyVars>>

ProbeSuccess == SuccessWith({Obj("{id:1}")}, {Undefined})

ProbeError == ErrorWith({Undefined}, {Undefined}, {Obj("{resource:'user'}")})

ConfigureCopy == ConfigureWith(CopyPartials)

NextConfig ==
    ConfigureCopy \/ GetConfig \/ MutateReturned \/ Release \/ ProbeSuccess \/ ProbeError

SpecConfig == InitDefault /\ [][NextConfig]_vars

(***************************************************************************)
(* Express: app.use(middleware()), then one request after another          *)
(***************************************************************************)
\* middleware(): returns the handler, a closure over `this`
Middleware ==
    /\ mw' = [created |-> TRUE, config |-> Config]
    /\ call' = [op |-> "middleware"]
    /\ ret' = Undefined
    /\ UNCHANGED <<storeVars, historyVars, res, fastifyVars>>

\* the handler runs for a new request: (req, res, next) => { ...; next() }
Handler ==
    /\ mw.created
    /\ res' = [NoRes EXCEPT !.attached = TRUE]
    /\ call' = [op |-> "handler"]
    /\ ret' = Undefined
    /\ UNCHANGED <<storeVars, historyVars, mw, fastifyVars>>

\* a route sets the status itself before answering: res.status(201)
RouteSetsStatus ==
    /\ res.attached /\ ~res.sent
    /\ res' = resStatus(res, Num("201"))
    /\ call' = [op |-> "res.status"]
    /\ ret' = Undefined
    /\ UNCHANGED <<storeVars, historyVars, mw, fastifyVars>>

ResApiSuccess ==
    \E d \in Datas, m \in Messages :
        /\ res.attached /\ ~res.sent
        /\ res' = apiSuccess(res, Config, d, m)
        /\ call' = [op |-> "res.apiSuccess", data |-> d, message |-> m]
        /\ ret' = Undefined
        /\ UNCHANGED <<storeVars, historyVars, mw, fastifyVars>>

ResApiError ==
    \E m \in Messages, c \in Codes, d \in Details :
        /\ res.attached /\ ~res.sent
        /\ res' = apiError(res, Config, m, c, d)
        /\ call' = [op |-> "res.apiError", message |-> m, code |-> c, details |-> d]
        /\ ret' = Undefined
        /\ UNCHANGED <<storeVars, historyVars, mw, fastifyVars>>

NextExpress ==
    ConfigureSmall \/ Middleware \/ Handler \/ RouteSetsStatus \/ ResApiSuccess \/ ResApiError

SpecExpress == InitDefault /\ [][NextExpress]_vars

(***************************************************************************)
(* Fastify: wrapper.decorateFastify(fastify), then one request after       *)
(* another                                                                 *)
(***************************************************************************)
DecorateFastify ==
    /\ "apiSuccess" \notin fastify.replyProto
    /\ fastify' = decorateFastify(fastify)
    /\ call' = [op |-> "decorateFastify"]
    /\ ret' = Undefined
    /\ UNCHANGED <<storeVars, historyVars, expressVars, reply>>

\* fastify creates the reply object of a new request
NewReply ==
    /\ reply' = [NoReply EXCEPT !.active = TRUE]
    /\ call' = [op |-> "request"]
    /\ ret' = Undefined
    /\ UNCHANGED <<storeVars, historyVars, expressVars, fastify>>

ReplyApiSuccess ==
    \E d \in Datas, m \in Messages :
        /\ reply.active /\ ~reply.sent /\ ~reply.threw
        /\ replyLookup(fastify, "apiSuccess") # "undefined"
        /\ reply' = replyApiSuccess(reply, fastify, Config, d, m)
        /\ call' = [op |-> "reply.apiSuccess", data |-> d, message |-> m]
        /\ ret' = Undefined
        /\ UNCHANGED <<storeVars, historyVars, expressVars, fastify>>

ReplyApiError ==
    \E m \in Messages, c \in Codes, d \in Details :
        /\ reply.active /\ ~reply.sent /\ ~reply.threw
        /\ replyLookup(fastify, "apiError") # "undefined"
        /\ reply' = replyApiError(reply, fastify, Config, m, c, d)
        /\ call' = [op |-> "reply.apiError", message |-> m, code |-> c, details |-> d]
        /\ ret' = Undefined
        /\ UNCHANGED <<storeVars, historyVars, expressVars, fastify>>

NextFastify ==
    ConfigureSmall \/ DecorateFastify \/ NewReply \/ ReplyApiSuccess \/ ReplyApiError

SpecFastify == InitDefault /\ [][NextFastify]_vars

(***************************************************************************)
(* Properties                                                              *)
(***************************************************************************)
NotFoundCall ==
    [op |-> "error", message |-> Str("Not found"), code |-> Num("404"),
     details |-> Obj("{resource:'user'}")]

\* C1: success(d, m) with a message string m, the empty string included,
\* returns exactly {success: true, message: m, data: d}, whatever the
\* configuration.
C1_SuccessEchoesMessage ==
    (call.op = "success" /\ call.message.type = "string")
        => ret = [success |-> True, message |-> call.message, data |-> call.data]

\* C2: error(m, c, d) with a message m, a code c and a details value d
\* supplied, falsy details values included:
\* success is false, message is m, error.code is c; error.details is d when
\* includeErrorDetails is true, and there is no details field when it is false.
C2_DetailsFollowFlag ==
    (/\ call.op = "error"
     /\ Truthy(call.message)
     /\ call.code # Undefined
     /\ call.details # Undefined
     /\ Config.includeErrorDetails \in {True, False})
        => ret = IF Config.includeErrorDetails = True
                 THEN [success |-> False, message |-> call.message,
                       error |-> [code |-> call.code, details |-> call.details]]
                 ELSE [success |-> False, message |-> call.message,
                       error |-> [code |-> call.code]]

\* C3: on the default wrapper with no configure call made,
\* error('Not found', 404, {resource: 'user'}) returns the envelope with
\* error.details = {resource: 'user'}.
C3_DefaultWrapperShowsDetails ==
    (ctorArg = Undefined /\ ~configured /\ call = NotFoundCall)
        => ret = [success |-> False, message |-> Str("Not found"),
                  error |-> [code |-> Num("404"),
                             details |-> Obj("{resource:'user'}")]]

\* C4: with the message omitted, success returns the defaultSuccessMessage most
\* recently set and error returns the defaultErrorMessage most recently set
\* (the initial defaults if never set); error() with nothing given has code 500.
C4_OmittedMessageIsLatestDefault ==
    /\ (call.op = "success" /\ call.message = Undefined)
           => ret.message = lastSet.defaultSuccessMessage
    /\ (call.op = "error" /\ call.message = Undefined)
           => /\ ret.message = lastSet.defaultErrorMessage
              /\ call.code = Undefined => ret.error.code = Num("500")

\* configure({defaultErrorMessage: 'Y'}) and then error() gives message 'Y'
C4_Witness ==
    /\ configured
    /\ call = [op |-> "error", message |-> Undefined, code |-> Undefined,
               details |-> Undefined]
    /\ lastSet.defaultErrorMessage = Str("Y")
    /\ ret.message = Str("Y")
    /\ ret.error.code = Num("500")

\* C5: every envelope success or error returns is a discriminated union: with
\* success true it has a data field and no error field; with success false it
\* has an error field with a code and no data field.
C5_DiscriminatedUnion ==
    (call.op \in {"success", "error"})
        => /\ ret.success \in {True, False}
           /\ ret.success = True
                  => "data" \in DOMAIN ret /\ "error" \notin DOMAIN ret
           /\ ret.success = False
                  => /\ "error" \in DOMAIN ret /\ "data" \notin DOMAIN ret
                     /\ "code" \in DOMAIN ret.error

\* a success envelope whose data is undefined still has its data field
C5_Witness ==
    /\ call.op = "success"
    /\ call.data = Undefined
    /\ ret.success = True
    /\ DOMAIN ret = {"success", "message", "data"}

\* C8: configure(partial) merges: afterwards every key present in partial has
\* partial's value and every key absent from it has the value it had before.
C8_ConfigureMerges ==
    [][call'.op = "configure"
          => /\ DOMAIN Config' = Keys
             /\ \A k \in Keys :
                    Config'[k] = IF k \in DOMAIN call'.newConfig
                                 THEN call'.newConfig[k]
                                 ELSE Config[k]]_vars

\* a second configure call that keeps what the first one set
C8_Witness ==
    /\ call = [op |-> "configure", newConfig |-> [defaultErrorMessage |-> Undefined]]
    /\ Config.defaultSuccessMessage = Str("OK")
    /\ Config.includeErrorDetails = True
    /\ Config.defaultErrorMessage = Undefined
    /\ ctorArg = Undefined

\* C10: whatever ResponseConfig values the constructor and configure were
\* given, the message of the envelope success or error returns is a string.
C10_MessageIsString ==
    (call.op \in {"success", "error"}) => ret.message.type = "string"

\* C6: in Express, res.apiError(m, c, d) sets the response status to c (500
\* when omitted) and hands res.json exactly error(m, c, d) built with the
\* configuration at the time of the call, so the status equals error.code;
\* res.apiSuccess(d, m) hands res.json exactly success(d, m) and leaves the
\* status as it was.
C6_ExpressSendsEnvelope ==
    /\ [](call.op = "res.apiError"
            => /\ res.sent
               /\ res.statusCode = DefaultParam(call.code, Num("500"))
               /\ res.body = error(Config, call.message, call.code, call.details)
               /\ res.statusCode = res.body.error.code)
    /\ [](call.op = "res.apiSuccess"
            => /\ res.sent
               /\ res.body = success(Config, call.data, call.message))
    /\ [][call'.op = "res.apiSuccess" => res'.statusCode = res.statusCode]_vars

\* res.apiError() after the configuration changed since middleware() was called:
\* status 500 and the default message of the call's time
C6_Witness ==
    /\ call = [op |-> "res.apiError", message |-> Undefined, code |-> Undefined,
               details |-> Undefined]
    /\ mw.created
    /\ mw.config.defaultErrorMessage = DefaultErrorMessage
    /\ Config.defaultErrorMessage = Str("Y")
    /\ res.statusCode = Num("500")
    /\ res.body.message = Str("Y")

\* C7: in Fastify, after decorateFastify, reply.apiSuccess(d, m) sends
\* success(d, m) and reply.apiError(m, c, d) sets the reply's status code to c
\* and sends error(m, c, d); neither call fails.
C7_FastifyRepliesSend ==
    /\ call.op = "reply.apiSuccess"
           => /\ ~reply.threw
              /\ reply.sent
              /\ reply.payload = success(Config, call.data, call.message)
    /\ call.op = "reply.apiError"
           => /\ ~reply.threw
              /\ reply.sent
              /\ reply.statusCode = DefaultParam(call.code, Num("500"))
              /\ reply.payload = error(Config, call.message, call.code, call.details)

\* C9: getConfig() returns a copy: a new object with the fields of the stored
\* configuration, made without changing anything else; assigning to a field of
\* a returned object changes neither the stored configuration nor any envelope
\* built afterwards; configure changes no object returned earlier.
C9_GetConfigReturnsCopy ==
    [][/\ call'.op = "getConfig"
           => /\ ret'.ref \in held' \ held
              /\ heap'[ret'.ref] = Config
              /\ configRef' = configRef
              /\ Config' = Config
              /\ \A r \in held : heap'[r] = heap[r]
              /\ UNCHANGED <<historyVars, expressVars, fastifyVars>>
       /\ call'.op = "mutate"
           => /\ Config' = Config
              /\ \A d \in Datas, m \in Messages :
                     success(Config', d, m) = success(Config, d, m)
              /\ \A m \in Messages, c \in Codes, d \in Details :
                     error(Config', m, c, d) = error(Config, m, c, d)
       /\ call'.op = "configure"
           => \A r \in held : r \in held' /\ heap'[r] = heap[r]
      ]_vars

\* the caller changed a field of a returned object and the stored configuration,
\* set by an earlier configure call, still has its own value there
C9_Witness ==
    /\ call.op = "mutate"
    /\ call.key = "defaultErrorMessage"
    /\ call.ref \in held
    /\ heap[call.ref].defaultErrorMessage = Str("")
    /\ Config.defaultErrorMessage = Str("Y")

====
